---- MODULE Spec2Model ----
(***************************************************************************)
(* Model of the NL-to-NoSQL retrieval pipeline:                            *)
(*   src/src/query_engine/nl2noSql_query.py       ResumeRetriever          *)
(*   src/src/query_engine/nosql_answer_generator.py  AnswerGenerator       *)
(*   src/src/query_engine/nosql_pipeline.py       NoSQLQueryPipeline       *)
(* One run(query) is followed from remote call to remote call.  The code   *)
(* between two remote calls runs without suspension and is one action.     *)
(***************************************************************************)
EXTENDS Integers, Sequences, FiniteSets, TLC

\* ------------------------------------------------------------------ bounds
\* longest JSON array of terms a keyword stage may answer with
MaxTerms == 2
\* number of documents the collection may hold
MaxDocs == 3
\* longest relevant_names / irrelevant_names list of a reranker answer
MaxNames == 2
\* longest payload, in tokens, given to clean_llm_response taken alone
MaxPayload == 3

\* --------------------------------------------------------------- universe
Queries == {"python developers", "kubernetes leads"}

\* terms a keyword stage may put in its array
Terms == {"python", "Kubernetes"}

\* candidate names a reranker answer may mention ("Eve" is in no document)
Names == {"Asha", "Ravi", "Eve"}

\* str.lower() on the words of the universe
Lower(s) ==
  IF s = "Python" THEN "python"
  ELSE IF s = "Kubernetes" THEN "kubernetes"
  ELSE s

\* all sequences over S of length 0..n
SeqUpTo(S, n) == UNION {[1..k -> S] : k \in 0..n}

\* ------------------------------------------------------------ JSON values
\* what json.loads can return
JArray(items) == [t |-> "array", items |-> items]
JObject(fields) == [t |-> "object", fields |-> fields]
JNumber == [t |-> "number"]

\* ------------------------------------------------------------------- text
\* A text is a sequence of tokens.  A "doc" token is the lexeme of one
\* well-formed JSON document, a "prose" token is free text that is not JSON.
\* the three backticks of a code fence
Fence == [tok |-> "fence"]
\* the tag json right after an opening fence
JsonTag == [tok |-> "json"]
\* one whitespace character
Ws == [tok |-> "ws"]
Doc(v) == [tok |-> "doc", val |-> v]
Prose(w) == [tok |-> "prose", w |-> w]
Lit(s) == [tok |-> "lit", s |-> s]

\* the ways a model wraps a payload p (a text) in its answer
Wrappings(p) ==
  { p,
    <<Fence, JsonTag>> \o p \o <<Fence>>,
    <<Fence>> \o p \o <<Fence>>,
    <<Ws, Fence, JsonTag, Ws>> \o p \o <<Ws, Fence, Ws>>,
    <<Fence, JsonTag>> \o p }

\* str.strip()
RECURSIVE LStrip(_)
LStrip(s) == IF s # <<>> /\ Head(s) = Ws THEN LStrip(Tail(s)) ELSE s
RECURSIVE RStrip(_)
RStrip(s) == IF s # <<>> /\ s[Len(s)] = Ws THEN RStrip(SubSeq(s, 1, Len(s) - 1)) ELSE s
Strip(s) == RStrip(LStrip(s))

StartsWith(s, p) == Len(s) >= Len(p) /\ SubSeq(s, 1, Len(p)) = p
EndsWith(s, p) == Len(s) >= Len(p) /\ SubSeq(s, Len(s) - Len(p) + 1, Len(s)) = p

\* Python slice s[a:-b] for a, b >= 0 counted in tokens
Slice(s, a, b) == SubSeq(s, a + 1, Len(s) - b)

\* the slices returned as they are, without the second strip()
clean_llm_response_NoInnerStrip(text) ==
  LET cleaned == Strip(text) IN
  IF StartsWith(cleaned, <<Fence, JsonTag>>) /\ EndsWith(cleaned, <<Fence>>)
    THEN Slice(cleaned, 2, 1)
  ELSE IF StartsWith(cleaned, <<Fence>>) /\ EndsWith(cleaned, <<Fence>>)
    THEN Slice(cleaned, 1, 1)
  ELSE cleaned

clean_llm_response(text) ==
  LET cleaned == Strip(text) IN
  IF StartsWith(cleaned, <<Fence, JsonTag>>) /\ EndsWith(cleaned, <<Fence>>)
    THEN Strip(Slice(cleaned, 2, 1))
  ELSE IF StartsWith(cleaned, <<Fence>>) /\ EndsWith(cleaned, <<Fence>>)
    THEN Strip(Slice(cleaned, 1, 1))
  ELSE cleaned

\* json.loads: [ok |-> TRUE, val |-> v] or [ok |-> FALSE] for JSONDecodeError.
\* Whitespace around the one document is accepted, anything else is not.
json_loads(text) ==
  LET s == Strip(text) IN
  IF Len(s) = 1 /\ s[1].tok = "doc" THEN [ok |-> TRUE, val |-> s[1].val]
  ELSE [ok |-> FALSE]

\* ------------------------------------------------- language model outcomes
\* what the await of an LLM call can produce: an exception, None (a null
\* content field in the service's answer) or a text
Raises == [kind |-> "raise"]
ReturnsNone == [kind |-> "none"]
Returns(text) == [kind |-> "text", text |-> text]

\* what the service did, seen from outside the pipeline: the call raised,
\* returned None, or returned a text that after fence stripping is not JSON
\* ("invalid") or is a JSON document of type "array", "object" or "number"
ResponseClass(out) ==
  IF out.kind = "raise" THEN "raised"
  ELSE IF out.kind = "none" THEN "none"
  ELSE LET parsed == json_loads(clean_llm_response(out.text)) IN
       IF parsed.ok THEN parsed.val.t ELSE "invalid"

\* the value json.loads gave for the cleaned response of a call, Absent when
\* the call or the parse raised
Parsed(out) ==
  IF out.kind = "text" /\ json_loads(clean_llm_response(out.text)).ok
    THEN json_loads(clean_llm_response(out.text)).val
    ELSE [t |-> "absent"]

\* ------------------------------------------------------- KeywordExtractor
\* responses the keyword model may give: arrays of terms, JSON of another
\* shape, and text that is not JSON, each wrapped in every way
KeywordDocs == {JArray(a) : a \in SeqUpTo(Terms, MaxTerms)} \cup {JNumber, JObject(<<>>)}
KeywordTexts ==
  UNION {Wrappings(<<Doc(v)>>) : v \in KeywordDocs} \cup {<<Prose("Sure, here are the keywords")>>}
KeywordOutcomes == {Raises, ReturnsNone} \cup {Returns(t) : t \in KeywordTexts}

\* Stage1 with except branches that fall through to Stage 2 instead of
\* returning
Stage1_FallThrough(out) ==
  IF out.kind = "raise" THEN [ok |-> TRUE, kws |-> <<>>]
  ELSE IF out.kind = "none" THEN [ok |-> TRUE, kws |-> <<>>]
  ELSE LET parsed == json_loads(clean_llm_response(out.text)) IN
       IF ~parsed.ok THEN [ok |-> TRUE, kws |-> <<>>]
       ELSE IF parsed.val.t # "array" THEN [ok |-> TRUE, kws |-> <<>>]
       ELSE [ok |-> TRUE, kws |-> parsed.val.items]

\* extract_keywords, first try block: ok goes on to Stage 2 with
\* primary_keywords = kws, ~ok is one of the two `return []`
Stage1(out) ==
  IF out.kind = "raise" THEN [ok |-> FALSE, kws |-> <<>>]
  ELSE IF out.kind = "none" THEN [ok |-> FALSE, kws |-> <<>>]
  ELSE LET parsed == json_loads(clean_llm_response(out.text)) IN
       IF ~parsed.ok THEN [ok |-> FALSE, kws |-> <<>>]
       ELSE IF parsed.val.t # "array" THEN [ok |-> FALSE, kws |-> <<>>]
       ELSE [ok |-> TRUE, kws |-> parsed.val.items]

\* Stage2 whose failure branches return [] as Stage 1's do
Stage2_EmptyOnFailure(primary, out) ==
  IF out.kind = "raise" THEN <<>>
  ELSE IF out.kind = "none" THEN <<>>
  ELSE LET parsed == json_loads(clean_llm_response(out.text)) IN
       IF ~parsed.ok THEN <<>>
       ELSE IF parsed.val.t # "array" THEN <<>>
       ELSE parsed.val.items

\* extract_keywords, second try block: the list the function returns
Stage2(primary, out) ==
  IF out.kind = "raise" THEN primary
  ELSE IF out.kind = "none" THEN primary
  ELSE LET parsed == json_loads(clean_llm_response(out.text)) IN
       IF ~parsed.ok THEN primary
       ELSE IF parsed.val.t # "array" THEN primary
       ELSE parsed.val.items

\* ------------------------------------------------------------ QueryBuilder
fields ==
  << "name", "summary", "skills", "projects.description", "projects.title",
     "experience.description", "experience.title", "experience.company",
     "education.institution", "certifications.title", "certifications.issuer" >>

\* the keywords without their repeats, in order of first occurrence
RECURSIVE Distinct(_, _)
Distinct(keywords, seen) ==
  IF keywords = <<>> THEN <<>>
  ELSE IF Head(keywords) \in seen THEN Distinct(Tail(keywords), seen)
  ELSE <<Head(keywords)>> \o Distinct(Tail(keywords), seen \cup {Head(keywords)})

\* the loops run over the distinct keywords only
or_conditions_Dedup(keywords) ==
  [n \in 1..(Len(Distinct(keywords, {})) * Len(fields)) |->
     [field |-> fields[((n - 1) % Len(fields)) + 1],
      regex |-> Distinct(keywords, {})[((n - 1) \div Len(fields)) + 1],
      options |-> "i"]]

\* the nested loops of build_mongo_query: keyword-major, field-minor
or_conditions(keywords) ==
  [n \in 1..(Len(keywords) * Len(fields)) |->
     [field |-> fields[((n - 1) % Len(fields)) + 1],
      regex |-> keywords[((n - 1) \div Len(fields)) + 1],
      options |-> "i"]]

\* a dict with the one key $or, or the empty dict
build_mongo_query(keywords) ==
  IF or_conditions(keywords) # <<>>
    THEN [keys |-> {"$or"}, or |-> or_conditions(keywords)]
    ELSE [keys |-> {}, or |-> <<>>]

\* ----------------------------------------------------------- DocumentStore
\* the i-th document of the collection; a document carries the searched
\* fields it has as sets of words
DocAt(i) ==
  [_id |-> [oid |-> i],
   name |-> IF i % 2 = 1 THEN "Asha" ELSE "Ravi",
   email |-> IF i % 2 = 1 THEN "asha@x.io" ELSE "ravi@x.io",
   phone |-> IF i % 2 = 1 THEN "555-0101" ELSE "555-0202",
   text |-> IF i % 4 = 1 THEN [skills |-> {"Python"}]
            ELSE IF i % 4 = 2 THEN [skills |-> {"python"}, summary |-> {"kubernetes"}]
            ELSE IF i % 4 = 3 THEN [summary |-> {"Kubernetes"}]
            ELSE [summary |-> {"java"}]]

Collection(n) == [i \in 1..n |-> DocAt(i)]

\* one {field: {"$regex": kw, "$options": "i"}} condition against one document
CondMatches(cond, doc) ==
  /\ cond.field \in DOMAIN doc.text
  /\ \E w \in doc.text[cond.field] : Lower(w) = Lower(cond.regex)

FilterMatches(mongo_query, doc) ==
  IF "$or" \in mongo_query.keys
    THEN \E n \in 1..Len(mongo_query.or) : CondMatches(mongo_query.or[n], doc)
    ELSE TRUE

RECURSIVE SelectDocs(_, _)
SelectDocs(docs, mongo_query) ==
  IF docs = <<>> THEN <<>>
  ELSE (IF FilterMatches(mongo_query, Head(docs)) THEN <<Head(docs)>> ELSE <<>>)
       \o SelectDocs(Tail(docs), mongo_query)

\* collection.find(mongo_query) read to the end
find(coll, mongo_query) == SelectDocs(coll, mongo_query)

\* str(res["_id"])
StrId(id) == [str |-> id.oid]

\* the "matched" list of search's result
MatchedOf(results) == [i \in 1..Len(results) |-> [results[i] EXCEPT !._id = StrId(@)]]

\* ---------------------------------------------------------------- Reranker
Absent == [t |-> "absent"]

\* a JSON object holding the keys whose value is given
RerankObject(rel, irr) ==
  JObject([k \in {key \in {"relevant_names", "irrelevant_names"} :
                    IF key = "relevant_names" THEN rel # Absent ELSE irr # Absent}
             |-> IF k = "relevant_names" THEN rel ELSE irr])

RelevantOptions == {JArray(a) : a \in SeqUpTo(Names, MaxNames)} \cup {Absent, JNumber}
IrrelevantOptions == {JArray(a) : a \in SeqUpTo(Names, 1)} \cup {Absent}

RerankDocs ==
  {RerankObject(rel, irr) : rel \in RelevantOptions, irr \in IrrelevantOptions}
    \cup {JArray(<<>>), JNumber}
RerankTexts ==
  UNION {Wrappings(<<Doc(v)>>) : v \in RerankDocs} \cup {<<Prose("not json")>>}
RerankOutcomes == {Raises, ReturnsNone} \cup {Returns(t) : t \in RerankTexts}

\* dict.get(key, default)
dict_get(obj, key, default) ==
  IF key \in DOMAIN obj.fields THEN obj.fields[key] ELSE default

\* `x in names` is defined for a list; for a number it raises TypeError
InRaises(names) == names.t # "array"
In(x, names) == \E i \in 1..Len(names.items) : names.items[i] = x

\* a result built from the names instead: one record per listed name, a
\* bare {"name": n} when no resume carries it
RECURSIVE RecordsOfNames(_, _)
RecordsOfNames(resumes, items) ==
  IF items = <<>> THEN <<>>
  ELSE (IF \E i \in 1..Len(resumes) : resumes[i].name = Head(items)
          THEN <<resumes[CHOOSE i \in 1..Len(resumes) : resumes[i].name = Head(items)]>>
          ELSE <<[name |-> Head(items)]>>)
       \o RecordsOfNames(resumes, Tail(items))

FilterByName_FromNames(resumes, relevant_names) ==
  RecordsOfNames(resumes, relevant_names.items)

\* a filter that keeps only the first resume of each listed name
RECURSIVE FirstPerName(_, _, _)
FirstPerName(resumes, relevant_names, seen) ==
  IF resumes = <<>> THEN <<>>
  ELSE IF In(Head(resumes).name, relevant_names) /\ Head(resumes).name \notin seen
    THEN <<Head(resumes)>>
           \o FirstPerName(Tail(resumes), relevant_names, seen \cup {Head(resumes).name})
    ELSE FirstPerName(Tail(resumes), relevant_names, seen)

FilterByName_FirstPerName(resumes, relevant_names) ==
  FirstPerName(resumes, relevant_names, {})

\* [r for r in resumes if r["name"] in relevant_names]
RECURSIVE FilterByName(_, _)
FilterByName(resumes, relevant_names) ==
  IF resumes = <<>> THEN <<>>
  ELSE (IF In(Head(resumes).name, relevant_names) THEN <<Head(resumes)>> ELSE <<>>)
       \o FilterByName(Tail(resumes), relevant_names)

\* rerank_resumes whose except branch returns [] instead of resumes
rerank_resumes_EmptyOnFailure(resumes, out) ==
  IF out.kind = "raise" THEN <<>>
  ELSE IF out.kind = "none" THEN <<>>
  ELSE LET parsed == json_loads(clean_llm_response(out.text)) IN
       IF ~parsed.ok THEN <<>>
       ELSE IF parsed.val.t # "object" THEN <<>>
       ELSE LET relevant_names == dict_get(parsed.val, "relevant_names", JArray(<<>>)) IN
            IF resumes # <<>> /\ InRaises(relevant_names)
              THEN <<>>
              ELSE FilterByName(resumes, relevant_names)

\* rerank_resumes from the return of the LLM call on: `return relevant`
\* at the end of the try block, `return resumes` in the except branch
rerank_resumes(resumes, out) ==
  IF out.kind = "raise" THEN resumes
  ELSE IF out.kind = "none" THEN resumes
  ELSE LET parsed == json_loads(clean_llm_response(out.text)) IN
       IF ~parsed.ok THEN resumes
       ELSE IF parsed.val.t # "object" THEN resumes
       ELSE LET relevant_names == dict_get(parsed.val, "relevant_names", JArray(<<>>)) IN
            IF resumes # <<>> /\ InRaises(relevant_names)
              THEN resumes
              ELSE FilterByName(resumes, relevant_names)

\* -------------------------------------------------------- AnswerSynthesizer
\* a Python str value
PyStr(text) == [type |-> "str", text |-> text]
NotReturned == [type |-> "unset"]

SynthTexts ==
  {<<>>, <<Prose("Asha")>>, <<Prose("Asha"), Prose("asha@x.io")>>}
SynthOutcomes == {Raises, ReturnsNone} \cup {Returns(t) : t \in SynthTexts}

\* Python's None
PyNone == [type |-> "NoneType"]

\* generate_answer whose except branch logs and falls off the end
generate_answer_NoneOnFailure(out) ==
  IF out.kind = "raise" THEN PyNone
  ELSE IF out.kind = "none" THEN PyNone
  ELSE PyStr(out.text)

\* generate_answer from the return of the LLM call on
generate_answer(out) ==
  IF out.kind = "raise" THEN PyStr(<<Lit("Generation failed: "), Lit("HTTPError")>>)
  ELSE IF out.kind = "none" THEN PyStr(<<Lit("Generation failed: "), Lit("TypeError")>>)
  ELSE PyStr(out.text)

\* ------------------------------------------------------------ Orchestrator
\* the dict search returns when extraction gave no keywords
SearchFailed(q) ==
  [query |-> q, keywords |-> <<>>, matched |-> <<>>, error |-> "Keyword extraction failed"]

\* the string run returns when search's "matched" is empty
NoResumesRetrieved == PyStr(<<Lit("No resumes retrieved for the given query.")>>)

VARIABLES
  pc,                \* where run(query) is: the remote call it awaits, or its end
  query,             \* run's argument
  collection,        \* the documents of the store
  stage1,            \* ResponseClass of the Stage 1 call's outcome
  primary_keywords,  \* extract_keywords' primary_keywords
  stage2,            \* ResponseClass of the Stage 2 call's outcome
  keywords,          \* what extract_keywords returned
  mongo_query,       \* the filter search passed to find
  matched,           \* run's resumes
  rerank,            \* ResponseClass of the reranker call's outcome
  reranked,          \* run's reranked
  result,            \* what run returned
  calls,             \* number of calls issued to each remote service
  synth,             \* kind of the synthesizer call's outcome
  final_keywords     \* extract_keywords' final_keywords, Absent until parsed

\* one call of rerank_resumes taken alone
VARIABLES
  rr_pc,             \* "off", "called" (awaiting the LLM) or "returned"
  rr_resumes,        \* the argument resumes
  rr_class,          \* ResponseClass of the LLM call's outcome
  rr_relevant,       \* the response's relevant_names value, Absent without one
  rr_irrelevant,     \* the response's irrelevant_names value, Absent without one
  rr_result          \* the returned list

\* batch_run_nl2nosql.py: main and the process_query it awaits
VARIABLES
  b_pc,              \* "off", or where main is
  b_use_gemini,      \* main's argument
  b_queries,         \* test_queries
  b_i,               \* number of queries whose result has been appended
  b_primary,         \* extract_keywords' primary_keywords, current query
  b_keywords,        \* process_query's keywords, current query
  b_query,           \* process_query's mongo_query, current query
  b_results,         \* main's results
  b_sleeps,          \* number of time.sleep(2) calls made
  b_finds            \* number of collection.find calls made

\* one call of clean_llm_response taken alone
VARIABLES
  cl_pc,             \* "off", "called" or "returned"
  cl_payload,        \* the payload the model answered with
  cl_wrap,           \* how the model wrapped the payload
  cl_text,           \* the argument text: the wrapped payload
  cl_result          \* the returned text

\* two calls of run on one NoSQLQueryPipeline, interleaved at their awaits
VARIABLES
  conc_pc,           \* per call: "off", or where the call is
  frames,            \* the frames holding the calls' local variables
  conc_result,       \* per call: the value run returned
  alone              \* per call: the same call run alone on the same responses

\* api/main.py: /query requests served by one event loop
VARIABLES
  api_pc,            \* per request: "off", "pending", "awaiting" or "done"
  api_request,       \* per request: the QueryRequest
  generator,         \* the flags of pipeline.generator, shared by all requests
  api_backend,       \* per request: the back-end _generate chose
  api_response       \* per request: the response returned

pipeline_vars == <<pc, query, collection, stage1, primary_keywords, stage2, keywords,
                   mongo_query, matched, rerank, reranked, result, calls, synth,
                   final_keywords>>
rerank_vars == <<rr_pc, rr_resumes, rr_class, rr_relevant, rr_irrelevant, rr_result>>
batch_vars == <<b_pc, b_use_gemini, b_queries, b_i, b_primary, b_keywords, b_query,
                b_results, b_sleeps, b_finds>>
clean_vars == <<cl_pc, cl_payload, cl_wrap, cl_text, cl_result>>
conc_vars == <<conc_pc, frames, conc_result, alone>>
api_vars == <<api_pc, api_request, generator, api_backend, api_response>>

vars == <<pipeline_vars, rerank_vars, batch_vars, clean_vars, conc_vars, api_vars>>

Services == {"stage1", "stage2", "find", "rerank", "synth"}

Issue(svc) == calls' = [calls EXCEPT ![svc] = @ + 1]

\* no call of rerank_resumes alone is under way
RerankOff ==
  /\ rr_pc = "off"
  /\ rr_resumes = <<>>
  /\ rr_class = "unset"
  /\ rr_relevant = Absent
  /\ rr_irrelevant = Absent
  /\ rr_result = <<>>

\* the batch runner is not the program that was started
BatchOff ==
  /\ b_pc = "off"
  /\ b_use_gemini = FALSE
  /\ b_queries = <<>>
  /\ b_i = 0
  /\ b_primary = <<>>
  /\ b_keywords = <<>>
  /\ b_query = build_mongo_query(<<>>)
  /\ b_results = <<>>
  /\ b_sleeps = 0
  /\ b_finds = 0

\* the coroutines calling run on the one pipeline object
Callers == {"a", "b"}

\* the local variables of one call of run and of the search and
\* extract_keywords calls below it that are live across an await
Frame(q) == [query |-> q, primary_keywords |-> <<>>, resumes |-> <<>>, reranked |-> <<>>]

\* no two calls of run are under way
ConcOff ==
  /\ conc_pc = [c \in Callers |-> "off"]
  /\ frames = [c \in Callers |-> Frame("")]
  /\ conc_result = [c \in Callers |-> NotReturned]
  /\ alone = [c \in Callers |-> [pc |-> "off", frame |-> Frame(""), result |-> NotReturned]]

\* a payload given without fences, between the whitespace o1 and o2
Bare(o1, o2) ==
  [fenced |-> FALSE, tag |-> <<>>, o1 |-> o1, i1 |-> <<>>, i2 |-> <<>>, o2 |-> o2]

\* no call of clean_llm_response alone is under way
CleanOff ==
  /\ cl_pc = "off"
  /\ cl_payload = <<>>
  /\ cl_wrap = Bare(<<>>, <<>>)
  /\ cl_text = <<>>
  /\ cl_result = <<>>

\* the /query requests a client may have in flight
Requests == {"r1", "r2"}

\* the flags startup_event gives the Generator
StartupFlags == [use_openai |-> FALSE, use_optimize_llm |-> TRUE]

\* the API server is not the program that was started
ApiOff ==
  /\ api_pc = [r \in Requests |-> "off"]
  /\ api_request = [r \in Requests |-> [use_openai |-> FALSE, use_optimize_llm |-> TRUE,
                                         retrieved |-> "empty"]]
  /\ generator = StartupFlags
  /\ api_backend = [r \in Requests |-> "none"]
  /\ api_response = [r \in Requests |-> "unset"]

Init ==
  /\ RerankOff
  /\ BatchOff
  /\ CleanOff
  /\ ConcOff
  /\ ApiOff
  /\ synth = "unset"
  /\ final_keywords = Absent
  /\ pc = "Start"
  /\ query \in Queries
  /\ collection \in {Collection(n) : n \in 0..MaxDocs}
  /\ stage1 = "unset"
  /\ primary_keywords = <<>>
  /\ stage2 = "unset"
  /\ keywords = <<>>
  /\ mongo_query = build_mongo_query(<<>>)
  /\ matched = <<>>
  /\ rerank = "unset"
  /\ reranked = <<>>
  /\ result = NotReturned
  /\ calls = [svc \in Services |-> 0]

\* `if keywords is None`, which no list satisfies
NoKeywords_IsNone(kws) == FALSE

\* search's `if not keywords`
NoKeywords(kws) == kws = <<>>

\* `if resumes is None`, which no list satisfies
NoResumes_IsNone(resumes) == FALSE

\* run's `if not resumes`
NoResumes(resumes) == resumes = <<>>

\* run that calls search again, once, when the store matched nothing
RunAfterSearch_Retry(found) ==
  /\ matched' = found.matched
  /\ IF NoResumes(found.matched) /\ calls["find"] = 1
       THEN /\ pc' = "Retrieving"
            /\ Issue("find")
            /\ UNCHANGED result
       ELSE IF NoResumes(found.matched)
         THEN /\ pc' = "Aborted"
              /\ result' = NoResumesRetrieved
              /\ UNCHANGED calls
         ELSE /\ pc' = "Reranking"
              /\ Issue("rerank")
              /\ UNCHANGED result

\* run lines 25-34, from search's result dict on: the early return of the
\* fixed string, or the reranker call
RunAfterSearch(found) ==
  /\ matched' = found.matched
  /\ IF NoResumes(found.matched)
       THEN /\ pc' = "Aborted"
            /\ result' = NoResumesRetrieved
            /\ UNCHANGED calls
       ELSE /\ pc' = "Reranking"
            /\ Issue("rerank")
            /\ UNCHANGED result

\* run with an early return when the reranker kept no candidate
RunAfterRerank_AbortOnEmpty(relevant) ==
  /\ reranked' = relevant
  /\ IF relevant = <<>>
       THEN /\ pc' = "Aborted"
            /\ result' = NoResumesRetrieved
            /\ UNCHANGED calls
       ELSE /\ pc' = "Synthesizing"
            /\ Issue("synth")
            /\ UNCHANGED result

\* run lines 35-38, from rerank_resumes' return on: the synthesizer call
RunAfterRerank(relevant) ==
  /\ reranked' = relevant
  /\ pc' = "Synthesizing"
  /\ Issue("synth")
  /\ UNCHANGED result

\* run -> search -> extract_keywords up to the Stage 1 await
Start ==
  /\ pc = "Start"
  /\ pc' = "Extracting1"
  /\ Issue("stage1")
  /\ UNCHANGED <<query, collection, stage1, primary_keywords, stage2, keywords,
                 mongo_query, matched, rerank, reranked, result>>
  /\ UNCHANGED <<synth, final_keywords>>
  /\ UNCHANGED <<rerank_vars, batch_vars, clean_vars, conc_vars, api_vars>>

\* search lines 192-201 from extract_keywords' return on: the early return
\* of SearchFailed into run, or build_mongo_query and the call of find
SearchAfterExtract(kws) ==
  /\ keywords' = kws
  /\ IF NoKeywords(kws)
       THEN /\ RunAfterSearch(SearchFailed(query))
            /\ UNCHANGED mongo_query
       ELSE /\ mongo_query' = build_mongo_query(kws)
            /\ pc' = "Retrieving"
            /\ Issue("find")
            /\ UNCHANGED <<matched, result>>

\* extract_keywords that issues the Stage 1 call a second time when the
\* first attempt failed
Stage1Return_Retry ==
  /\ pc = "Extracting1"
  /\ \E out \in KeywordOutcomes :
       /\ stage1' = ResponseClass(out)
       /\ IF Stage1(out).ok
            THEN /\ primary_keywords' = Stage1(out).kws
                 /\ pc' = "Extracting2"
                 /\ Issue("stage2")
                 /\ UNCHANGED <<keywords, mongo_query, matched, result>>
            ELSE IF calls["stage1"] = 1
              THEN /\ pc' = "Extracting1"
                   /\ Issue("stage1")
                   /\ UNCHANGED <<primary_keywords, keywords, mongo_query, matched, result>>
              ELSE /\ SearchAfterExtract(Stage1(out).kws)
                   /\ UNCHANGED primary_keywords
  /\ UNCHANGED <<query, collection, stage2, rerank, reranked>>
  /\ UNCHANGED <<synth, final_keywords>>
  /\ UNCHANGED <<rerank_vars, batch_vars, clean_vars, conc_vars, api_vars>>

\* the Stage 1 await returns: first try block, then the Stage 2 call or
\* `return []` into search
Stage1Return ==
  /\ pc = "Extracting1"
  /\ \E out \in KeywordOutcomes :
       /\ stage1' = ResponseClass(out)
       /\ IF Stage1(out).ok
            THEN /\ primary_keywords' = Stage1(out).kws
                 /\ pc' = "Extracting2"
                 /\ Issue("stage2")
                 /\ UNCHANGED <<keywords, mongo_query, matched, result>>
            ELSE /\ SearchAfterExtract(Stage1(out).kws)
                 /\ UNCHANGED primary_keywords
  /\ UNCHANGED <<query, collection, stage2, rerank, reranked>>
  /\ UNCHANGED <<synth, final_keywords>>
  /\ UNCHANGED <<rerank_vars, batch_vars, clean_vars, conc_vars, api_vars>>

\* extract_keywords that returns the Stage 1 list followed by the Stage 2
\* list
Stage2Return_Merge ==
  /\ pc = "Extracting2"
  /\ \E out \in KeywordOutcomes :
       /\ stage2' = ResponseClass(out)
       /\ final_keywords' = Parsed(out)
       /\ SearchAfterExtract(primary_keywords \o Stage2(primary_keywords, out))
  /\ UNCHANGED <<query, collection, stage1, primary_keywords, rerank, reranked, synth>>
  /\ UNCHANGED <<rerank_vars, batch_vars, clean_vars, conc_vars, api_vars>>

\* the Stage 2 await returns: second try block, then search goes on
Stage2Return ==
  /\ pc = "Extracting2"
  /\ \E out \in KeywordOutcomes :
       /\ stage2' = ResponseClass(out)
       /\ final_keywords' = Parsed(out)
       /\ SearchAfterExtract(Stage2(primary_keywords, out))
  /\ UNCHANGED <<query, collection, stage1, primary_keywords, rerank, reranked, synth>>
  /\ UNCHANGED <<rerank_vars, batch_vars, clean_vars, conc_vars, api_vars>>

\* find returns or raises; neither search nor run catches around it.  On a
\* return: search's result dict, then run goes on
StoreReturn ==
  /\ pc = "Retrieving"
  /\ \E fails \in BOOLEAN :
       IF fails
         THEN /\ pc' = "Raised"
              /\ UNCHANGED <<matched, result, calls>>
         ELSE RunAfterSearch([query |-> query, keywords |-> keywords,
                              matched |-> MatchedOf(find(collection, mongo_query))])
  /\ UNCHANGED <<query, collection, stage1, primary_keywords, stage2, keywords,
                 mongo_query, rerank, reranked>>
  /\ UNCHANGED <<synth, final_keywords>>
  /\ UNCHANGED <<rerank_vars, batch_vars, clean_vars, conc_vars, api_vars>>

\* rerank_resumes that filters its argument list in place
RerankReturn_InPlace ==
  /\ pc = "Reranking"
  /\ \E out \in RerankOutcomes :
       /\ rerank' = ResponseClass(out)
       /\ matched' = rerank_resumes(matched, out)
       /\ RunAfterRerank(rerank_resumes(matched, out))
  /\ UNCHANGED <<query, collection, stage1, primary_keywords, stage2, keywords,
                 mongo_query>>
  /\ UNCHANGED <<synth, final_keywords>>
  /\ UNCHANGED <<rerank_vars, batch_vars, clean_vars, conc_vars, api_vars>>

\* the reranker await returns: rerank_resumes' try block, then run goes on
RerankReturn ==
  /\ pc = "Reranking"
  /\ \E out \in RerankOutcomes :
       /\ rerank' = ResponseClass(out)
       /\ RunAfterRerank(rerank_resumes(matched, out))
  /\ UNCHANGED <<query, collection, stage1, primary_keywords, stage2, keywords,
                 mongo_query, matched>>
  /\ UNCHANGED <<synth, final_keywords>>
  /\ UNCHANGED <<rerank_vars, batch_vars, clean_vars, conc_vars, api_vars>>

\* the synthesizer await returns: generate_answer's try block, run line 40
SynthReturn ==
  /\ pc = "Synthesizing"
  /\ \E out \in SynthOutcomes :
       /\ synth' = out.kind
       /\ result' = generate_answer(out)
  /\ pc' = "Done"
  /\ UNCHANGED <<query, collection, stage1, primary_keywords, stage2, keywords,
                 mongo_query, matched, rerank, reranked, calls>>
  /\ UNCHANGED final_keywords
  /\ UNCHANGED <<rerank_vars, batch_vars, clean_vars, conc_vars, api_vars>>

Next ==
  \/ Start
  \/ Stage1Return
  \/ Stage2Return
  \/ StoreReturn
  \/ RerankReturn
  \/ SynthReturn

Spec == Init /\ [][Next]_vars

\* a run under the assumption that every remote call returns a response or
\* fails in the end: a call that is awaited does come back, and run takes
\* the step that follows
FairSpec == Init /\ [][Next]_vars /\ WF_vars(Next)

TypeOK ==
  /\ pc \in {"Start", "Extracting1", "Extracting2", "Retrieving", "Reranking",
             "Synthesizing", "Done", "Aborted", "Raised"}
  /\ result.type \in {"str", "unset"}

\* ------------------------------------------------- rerank_resumes alone
\* the pipeline is not the program that was started
PipelineOff ==
  /\ pc = "off"
  /\ query = ""
  /\ stage1 = "unset"
  /\ primary_keywords = <<>>
  /\ stage2 = "unset"
  /\ keywords = <<>>
  /\ mongo_query = build_mongo_query(<<>>)
  /\ matched = <<>>
  /\ rerank = "unset"
  /\ reranked = <<>>
  /\ result = NotReturned
  /\ calls = [svc \in Services |-> 0]
  /\ synth = "unset"
  /\ final_keywords = Absent

\* the lists run passes to rerank_resumes: every non-empty "matched" that
\* search can return for a collection and a keyword list
RerankInputs ==
  {MatchedOf(find(Collection(n), build_mongo_query(kws))) :
     n \in 0..MaxDocs, kws \in SeqUpTo(Terms, MaxTerms) \ {<<>>}} \ {<<>>}

\* the value a parsed response holds under key, Absent when the response is
\* not a JSON object or has no such key
ResponseField(out, key) ==
  IF ResponseClass(out) = "object"
    THEN dict_get(json_loads(clean_llm_response(out.text)).val, key, Absent)
    ELSE Absent

\* rerank_resumes has been called and awaits the LLM
RerankInit ==
  /\ PipelineOff
  /\ collection = <<>>
  /\ BatchOff
  /\ CleanOff
  /\ ConcOff
  /\ ApiOff
  /\ rr_pc = "called"
  /\ rr_resumes \in RerankInputs
  /\ rr_class = "unset"
  /\ rr_relevant = Absent
  /\ rr_irrelevant = Absent
  /\ rr_result = <<>>

\* the LLM await returns and rerank_resumes runs to its return
RerankApply ==
  /\ rr_pc = "called"
  /\ \E out \in RerankOutcomes :
       /\ rr_class' = ResponseClass(out)
       /\ rr_relevant' = ResponseField(out, "relevant_names")
       /\ rr_irrelevant' = ResponseField(out, "irrelevant_names")
       /\ rr_result' = rerank_resumes(rr_resumes, out)
  /\ rr_pc' = "returned"
  /\ UNCHANGED <<rr_resumes, pipeline_vars, batch_vars, clean_vars, conc_vars, api_vars>>

RerankNext == RerankApply

RerankSpec == RerankInit /\ [][RerankNext]_vars

\* --------------------------------------------- clean_llm_response alone
\* what a payload is made of: whitespace, the word json, three backticks, a
\* JSON document and other text
PayloadTokens == {Ws, JsonTag, Fence, Doc(JArray(<<"python">>)), Prose("Sure")}

Payloads == SeqUpTo(PayloadTokens, MaxPayload)

\* whitespace or none
Blank == {<<>>, <<Ws>>}

\* the ways to give a payload: in triple-backtick fences, with or without
\* the json tag, with whitespace or none before the fence (o1), between
\* fence or tag and payload (i1), after the payload (i2) and after the
\* closing fence (o2); or bare, with whitespace or none around it
Wraps ==
  {[fenced |-> TRUE, tag |-> tag, o1 |-> o1, i1 |-> i1, i2 |-> i2, o2 |-> o2] :
     tag \in {<<>>, <<JsonTag>>}, o1 \in Blank, i1 \in Blank, i2 \in Blank, o2 \in Blank}
  \cup {Bare(o1, o2) : o1 \in Blank, o2 \in Blank}

\* the text of payload p wrapped as w says
WrapText(w, p) ==
  IF w.fenced
    THEN w.o1 \o <<Fence>> \o w.tag \o w.i1 \o p \o w.i2 \o <<Fence>> \o w.o2
    ELSE w.o1 \o p \o w.o2

\* clean_llm_response has been called with a model's answer
CleanInit ==
  /\ PipelineOff
  /\ collection = <<>>
  /\ RerankOff
  /\ BatchOff
  /\ ConcOff
  /\ ApiOff
  /\ cl_pc = "called"
  /\ cl_payload \in Payloads
  /\ cl_wrap \in Wraps
  /\ cl_text = WrapText(cl_wrap, cl_payload)
  /\ cl_result = <<>>

\* clean_llm_response runs to its return
CleanApply ==
  /\ cl_pc = "called"
  /\ cl_result' = clean_llm_response(cl_text)
  /\ cl_pc' = "returned"
  /\ UNCHANGED <<cl_payload, cl_wrap, cl_text>>
  /\ UNCHANGED <<pipeline_vars, rerank_vars, batch_vars, conc_vars, api_vars>>

CleanNext == CleanApply

CleanSpec == CleanInit /\ [][CleanNext]_vars

\* ------------------------------------------ two calls of run, interleaved
\* locals kept as attributes of the pipeline object: one frame for all calls
FrameOf_OnInstance(c) == "a"

\* the frame that holds the locals of call c: every call of a coroutine
\* function has a frame of its own
FrameOf(c) == c

\* what the awaits of the two calls may produce
ConcKeywordOutcomes ==
  {Raises, Returns(<<Doc(JArray(<<>>))>>), Returns(<<Doc(JArray(<<"python">>))>>),
   Returns(<<Fence, JsonTag, Doc(JArray(<<"Kubernetes">>)), Fence>>)}
ConcRerankOutcomes ==
  {Raises, Returns(<<Doc(RerankObject(JArray(<<"Asha">>), Absent))>>),
   Returns(<<Doc(RerankObject(JArray(<<"Ravi">>), Absent))>>)}
ConcSynthOutcomes == {Raises, Returns(<<Prose("Asha")>>)}

\* search from extract_keywords' return on and run up to its next await:
\* the early returns, find (a blocking call, no await) and the reranker call
RunAfterExtract(f, kws, coll, fails) ==
  IF NoKeywords(kws)
    THEN [pc |-> "Aborted", frame |-> f, result |-> NoResumesRetrieved]
  ELSE IF fails
    THEN [pc |-> "Raised", frame |-> f, result |-> NotReturned]
  ELSE IF NoResumes(MatchedOf(find(coll, build_mongo_query(kws))))
    THEN [pc |-> "Aborted", frame |-> f, result |-> NoResumesRetrieved]
  ELSE [pc |-> "Reranking",
        frame |-> [f EXCEPT !.resumes = MatchedOf(find(coll, build_mongo_query(kws)))],
        result |-> NotReturned]

\* run from the return of the await it is at (at) to its next await or its
\* end, on the locals f: the new place, the new locals, the returned value
RunStep(at, f, out, coll, fails) ==
  CASE at = "Extracting1" ->
         IF Stage1(out).ok
           THEN [pc |-> "Extracting2",
                 frame |-> [f EXCEPT !.primary_keywords = Stage1(out).kws],
                 result |-> NotReturned]
           ELSE RunAfterExtract(f, Stage1(out).kws, coll, fails)
    [] at = "Extracting2" ->
         RunAfterExtract(f, Stage2(f.primary_keywords, out), coll, fails)
    [] at = "Reranking" ->
         [pc |-> "Synthesizing",
          frame |-> [f EXCEPT !.reranked = rerank_resumes(f.resumes, out)],
          result |-> NotReturned]
    [] at = "Synthesizing" ->
         [pc |-> "Done", frame |-> f, result |-> generate_answer(out)]
    [] OTHER -> [pc |-> at, frame |-> f, result |-> NotReturned]

\* two coroutines have called run on the one pipeline object
ConcInit ==
  /\ PipelineOff
  /\ collection = Collection(MaxDocs)
  /\ RerankOff
  /\ BatchOff
  /\ CleanOff
  /\ ApiOff
  /\ conc_pc = [c \in Callers |-> "Start"]
  /\ frames \in [Callers -> {Frame(q) : q \in Queries}]
  /\ conc_result = [c \in Callers |-> NotReturned]
  /\ alone = [c \in Callers |-> [pc |-> "Start", frame |-> frames[c], result |-> NotReturned]]

\* call c runs from the await it is at to its next await or its end; alone
\* follows the same call, given the same responses, with nothing else running
ConcResume(c, out, fails) ==
  LET step == RunStep(conc_pc[c], frames[FrameOf(c)], out, collection, fails) IN
  /\ conc_pc' = [conc_pc EXCEPT ![c] = step.pc]
  /\ frames' = [frames EXCEPT ![FrameOf(c)] = step.frame]
  /\ conc_result' = [conc_result EXCEPT ![c] = step.result]
  /\ alone' = [alone EXCEPT ![c] = RunStep(alone[c].pc, alone[c].frame, out, collection, fails)]
  /\ UNCHANGED <<pipeline_vars, rerank_vars, batch_vars, clean_vars, api_vars>>

\* run -> search -> extract_keywords up to the Stage 1 await
ConcStart(c) ==
  /\ conc_pc[c] = "Start"
  /\ conc_pc' = [conc_pc EXCEPT ![c] = "Extracting1"]
  /\ alone' = [alone EXCEPT ![c].pc = "Extracting1"]
  /\ UNCHANGED <<frames, conc_result>>
  /\ UNCHANGED <<pipeline_vars, rerank_vars, batch_vars, clean_vars, api_vars>>

ConcStage1Return(c) ==
  /\ conc_pc[c] = "Extracting1"
  /\ \E out \in ConcKeywordOutcomes, fails \in BOOLEAN : ConcResume(c, out, fails)

ConcStage2Return(c) ==
  /\ conc_pc[c] = "Extracting2"
  /\ \E out \in ConcKeywordOutcomes, fails \in BOOLEAN : ConcResume(c, out, fails)

ConcRerankReturn(c) ==
  /\ conc_pc[c] = "Reranking"
  /\ \E out \in ConcRerankOutcomes : ConcResume(c, out, FALSE)

ConcSynthReturn(c) ==
  /\ conc_pc[c] = "Synthesizing"
  /\ \E out \in ConcSynthOutcomes : ConcResume(c, out, FALSE)

\* the event loop resumes whichever call has its response
ConcNext ==
  \E c \in Callers :
     \/ ConcStart(c)
     \/ ConcStage1Return(c)
     \/ ConcStage2Return(c)
     \/ ConcRerankReturn(c)
     \/ ConcSynthReturn(c)

ConcSpec == ConcInit /\ [][ConcNext]_vars

\* ------------------------------------------------------- the /query API
\* the branch the if/elif/else of _generate takes for the flags it reads
SelectBackend(flags) ==
  IF flags.use_optimize_llm THEN "azure"
  ELSE IF flags.use_openai THEN "openai"
  ELSE "gemini"

\* a QueryRequest, with what retriever.query does for its query: it raises,
\* returns no chunk or returns chunks
QueryRequest ==
  [use_openai : BOOLEAN, use_optimize_llm : BOOLEAN,
   retrieved : {"raises", "empty", "chunks"}]

\* the server is up and the requests have arrived
ApiInit ==
  /\ PipelineOff
  /\ collection = <<>>
  /\ RerankOff
  /\ BatchOff
  /\ CleanOff
  /\ ConcOff
  /\ api_pc = [r \in Requests |-> "pending"]
  /\ api_request \in [Requests -> QueryRequest]
  /\ generator = StartupFlags
  /\ api_backend = [r \in Requests |-> "none"]
  /\ api_response = [r \in Requests |-> "unset"]

\* query_rag from its start to the first suspension: the two flag writes,
\* the blocking retriever.query, generate_response and _generate up to the
\* await of the Azure call.  The OpenAI and Gemini branches make blocking
\* calls on clients that __init__ created only for the matching startup
\* flags, so with StartupFlags they raise AttributeError into the except
\* branch.
QueryRag(r) ==
  /\ api_pc[r] = "pending"
  /\ generator' = [use_openai |-> api_request[r].use_openai,
                   use_optimize_llm |-> api_request[r].use_optimize_llm]
  /\ IF api_request[r].retrieved = "raises"
       THEN /\ api_pc' = [api_pc EXCEPT ![r] = "done"]
            /\ api_response' = [api_response EXCEPT ![r] = "raised"]
            /\ UNCHANGED api_backend
     ELSE IF api_request[r].retrieved = "empty"
       THEN /\ api_pc' = [api_pc EXCEPT ![r] = "done"]
            /\ api_response' = [api_response EXCEPT ![r] = "No relevant information found."]
            /\ UNCHANGED api_backend
     ELSE /\ api_backend' = [api_backend EXCEPT ![r] = SelectBackend(generator')]
          /\ IF SelectBackend(generator') = "azure"
               THEN /\ api_pc' = [api_pc EXCEPT ![r] = "awaiting"]
                    /\ UNCHANGED api_response
               ELSE /\ api_pc' = [api_pc EXCEPT ![r] = "done"]
                    /\ api_response' = [api_response EXCEPT ![r] = "Error generating response."]
  /\ UNCHANGED api_request
  /\ UNCHANGED <<pipeline_vars, rerank_vars, batch_vars, clean_vars, conc_vars>>

\* _generate that looks at the flags again when the Azure call is back
AzureReturn_Reselect(r) ==
  /\ api_pc[r] = "awaiting"
  /\ api_pc' = [api_pc EXCEPT ![r] = "done"]
  /\ api_backend' = [api_backend EXCEPT ![r] = SelectBackend(generator)]
  /\ \E ok \in BOOLEAN :
       api_response' = [api_response EXCEPT ![r] =
                          IF ok THEN "result" ELSE "Error generating response."]
  /\ UNCHANGED <<api_request, generator>>
  /\ UNCHANGED <<pipeline_vars, rerank_vars, batch_vars, clean_vars, conc_vars>>

\* the await of _generate_optimize_llm returns or raises: the rest of
\* _generate's try block or its except branch, then query_rag returns
AzureReturn(r) ==
  /\ api_pc[r] = "awaiting"
  /\ api_pc' = [api_pc EXCEPT ![r] = "done"]
  /\ \E ok \in BOOLEAN :
       api_response' = [api_response EXCEPT ![r] =
                          IF ok THEN "result" ELSE "Error generating response."]
  /\ UNCHANGED <<api_request, generator, api_backend>>
  /\ UNCHANGED <<pipeline_vars, rerank_vars, batch_vars, clean_vars, conc_vars>>

\* the event loop runs whichever request can go on
ApiNext ==
  \E r \in Requests :
     \/ QueryRag(r)
     \/ AzureReturn(r)

ApiSpec == ApiInit /\ [][ApiNext]_vars

\* ------------------------------------------------------------ batch runner
\* data/test_queries.json
TestQueries == <<"python developers", "kubernetes leads">>

\* process_query's `if not keywords`
SkipEmptyExtraction(kws) == kws = <<>>

\* the name/email entries process_query stores for the matched documents
MatchedResumes(docs) ==
  [i \in 1..Len(docs) |-> [name |-> docs[i].name, email |-> docs[i].email]]

\* process_query returns result_log and main appends it to results
BatchAppend(kws, matched_resumes) ==
  /\ b_results' = Append(b_results,
                    [query |-> b_queries[b_i + 1], keywords |-> kws,
                     matched_resumes |-> matched_resumes])
  /\ b_i' = b_i + 1
  /\ b_pc' = "Loop"
  /\ b_primary' = <<>>
  /\ b_keywords' = <<>>
  /\ b_query' = build_mongo_query(<<>>)

\* process_query whose empty extraction is dropped from the log: main
\* appends nothing for it
ProcessAfterExtract_DropEmpty(kws) ==
  IF SkipEmptyExtraction(kws)
    THEN /\ b_i' = b_i + 1
         /\ b_pc' = "Loop"
         /\ b_primary' = <<>>
         /\ UNCHANGED <<b_results, b_keywords, b_query, b_finds>>
    ELSE /\ b_keywords' = kws
         /\ b_query' = build_mongo_query(kws)
         /\ b_pc' = "Retrieving"
         /\ b_finds' = b_finds + 1
         /\ b_primary' = <<>>
         /\ UNCHANGED <<b_results, b_i>>

\* process_query from extract_keywords' return on: the early return of the
\* empty result_log, or build_mongo_query and the call of find
ProcessAfterExtract(kws) ==
  IF SkipEmptyExtraction(kws)
    THEN BatchAppend(kws, <<>>) /\ UNCHANGED b_finds
    ELSE /\ b_keywords' = kws
         /\ b_query' = build_mongo_query(kws)
         /\ b_pc' = "Retrieving"
         /\ b_finds' = b_finds + 1
         /\ b_primary' = <<>>
         /\ UNCHANGED <<b_results, b_i>>

\* the batch runner was started: main has loaded the queries
BatchInit ==
  /\ PipelineOff
  /\ collection \in {Collection(n) : n \in 0..MaxDocs}
  /\ RerankOff
  /\ CleanOff
  /\ ConcOff
  /\ ApiOff
  /\ b_pc = "Loop"
  /\ b_use_gemini \in BOOLEAN
  /\ b_queries \in {SubSeq(TestQueries, 1, n) : n \in 0..Len(TestQueries)}
  /\ b_i = 0
  /\ b_primary = <<>>
  /\ b_keywords = <<>>
  /\ b_query = build_mongo_query(<<>>)
  /\ b_results = <<>>
  /\ b_sleeps = 0
  /\ b_finds = 0

\* one turn of main's for loop up to the Stage 1 await in extract_keywords:
\* the sleep when use_gemini is set, then process_query
BatchNextQuery ==
  /\ b_pc = "Loop"
  /\ b_i < Len(b_queries)
  /\ b_sleeps' = IF b_use_gemini THEN b_sleeps + 1 ELSE b_sleeps
  /\ b_pc' = "Extracting1"
  /\ UNCHANGED <<b_use_gemini, b_queries, b_i, b_primary, b_keywords, b_query,
                 b_results, b_finds>>
  /\ UNCHANGED <<pipeline_vars, rerank_vars, clean_vars, conc_vars, api_vars>>

\* the Stage 1 await returns inside process_query
BatchStage1Return ==
  /\ b_pc = "Extracting1"
  /\ \E out \in KeywordOutcomes :
       IF Stage1(out).ok
         THEN /\ b_primary' = Stage1(out).kws
              /\ b_pc' = "Extracting2"
              /\ UNCHANGED <<b_keywords, b_query, b_results, b_i, b_finds>>
         ELSE ProcessAfterExtract(Stage1(out).kws)
  /\ UNCHANGED <<b_use_gemini, b_queries, b_sleeps>>
  /\ UNCHANGED <<pipeline_vars, rerank_vars, clean_vars, conc_vars, api_vars>>

\* the Stage 2 await returns inside process_query
BatchStage2Return ==
  /\ b_pc = "Extracting2"
  /\ \E out \in KeywordOutcomes : ProcessAfterExtract(Stage2(b_primary, out))
  /\ UNCHANGED <<b_use_gemini, b_queries, b_sleeps>>
  /\ UNCHANGED <<pipeline_vars, rerank_vars, clean_vars, conc_vars, api_vars>>

\* find returns or raises; neither process_query nor main catches around it
BatchStoreReturn ==
  /\ b_pc = "Retrieving"
  /\ \E fails \in BOOLEAN :
       IF fails
         THEN /\ b_pc' = "Raised"
              /\ UNCHANGED <<b_primary, b_keywords, b_query, b_results, b_i>>
         ELSE BatchAppend(b_keywords, MatchedResumes(find(collection, b_query)))
  /\ UNCHANGED <<b_use_gemini, b_queries, b_sleeps, b_finds>>
  /\ UNCHANGED <<pipeline_vars, rerank_vars, clean_vars, conc_vars, api_vars>>

\* the loop is over: main dumps results to the log file
BatchSave ==
  /\ b_pc = "Loop"
  /\ b_i = Len(b_queries)
  /\ b_pc' = "Saved"
  /\ UNCHANGED <<b_use_gemini, b_queries, b_i, b_primary, b_keywords, b_query,
                 b_results, b_sleeps, b_finds>>
  /\ UNCHANGED <<pipeline_vars, rerank_vars, clean_vars, conc_vars, api_vars>>

\* ------------------------------------------------ the two entry points
\* either nosql_pipeline.py or batch_run_nl2nosql.py was started
CliInit == Init \/ BatchInit

CliNext ==
  \/ Start
  \/ Stage1Return
  \/ Stage2Return
  \/ StoreReturn
  \/ RerankReturn
  \/ SynthReturn
  \/ BatchNextQuery
  \/ BatchStage1Return
  \/ BatchStage2Return
  \/ BatchStoreReturn
  \/ BatchSave

CliSpec == CliInit /\ [][CliNext]_vars

\* ------------------------------------------------------------------ claims
Range(seq) == {seq[i] : i \in 1..Len(seq)}

\* run has returned a value (line 29 or line 40)
Returned == pc \in {"Done", "Aborted"}

\* the classes of a keyword stage's outcome that make the stage fail: the
\* call raised (or gave no text), the cleaned text is not JSON, or it is
\* JSON but not an array
StageFailed(class) == class \in {"raised", "none", "invalid", "object", "number"}

\* find was called and has returned
StoreAnswered == calls["find"] = 1 /\ pc \notin {"Retrieving", "Raised"}

\* C1: run(query) never lets an exception escape: whatever the five remote
\* calls do, the run is never left by an exception and every finished run
\* has returned a string.
C1_NoExceptionEscapes ==
  /\ pc # "Raised"
  /\ Returned => result.type = "str"

\* C2: if the Stage 1 response parses to the empty array, find is never
\* called in that run, whatever Stage 2 answers.
C2_EmptyStage1NeverFinds ==
  (stage1 = "array" /\ primary_keywords = <<>>) => calls["find"] = 0

\* C3: if the store returns an empty sequence for the built filter, run
\* returns the fixed string of line 29 and neither the reranker nor the
\* synthesizer is called.
C3_EmptyRetrievalAborts ==
  (StoreAnswered /\ matched = <<>>) =>
     /\ pc = "Aborted"
     /\ result = NoResumesRetrieved
     /\ calls["rerank"] = 0
     /\ calls["synth"] = 0

C3_Witness ==
  /\ StoreAnswered
  /\ matched = <<>>
  /\ collection # <<>>
  /\ pc = "Aborted"

\* C4: the returned value tells the two abort causes apart: an empty TermSet
\* gives the "no keywords extracted" diagnostic (the error search reports),
\* an empty candidate sequence the "no matching records" one, and each
\* diagnostic is returned only for its own cause.
C4_DiagnosticsTellCausesApart ==
  /\ (Returned /\ calls["find"] = 0) =>
        result = PyStr(<<Lit(SearchFailed(query).error)>>)
  /\ (Returned /\ result = NoResumesRetrieved) =>
        (StoreAnswered /\ matched = <<>>)

\* C5: Aborted is entered only on an empty TermSet or an empty candidate
\* sequence; once the store has returned a candidate the run is calling the
\* reranker, or has called it once and is calling the synthesizer, or has
\* called both once and is Done with a string, also when the reranker kept
\* no candidate.
C5_AbortOnlyOnEmpty ==
  /\ pc = "Aborted" => (keywords = <<>> \/ (StoreAnswered /\ matched = <<>>))
  /\ (StoreAnswered /\ matched # <<>>) =>
       \/ pc = "Reranking" /\ calls["rerank"] = 1 /\ calls["synth"] = 0
       \/ pc = "Synthesizing" /\ calls["rerank"] = 1 /\ calls["synth"] = 1
       \/ pc = "Done" /\ calls["rerank"] = 1 /\ calls["synth"] = 1 /\ result.type = "str"

C5_Witness ==
  /\ pc = "Done"
  /\ matched # <<>>
  /\ rerank = "object"
  /\ reranked = <<>>

\* C6: if Stage 1 fails, extract_keywords returns the empty list and the
\* Stage 2 call is not issued.
C6_Stage1FailureSkipsStage2 ==
  StageFailed(stage1) =>
     /\ keywords = <<>>
     /\ calls["stage2"] = 0
     /\ stage2 = "unset"
     /\ pc = "Aborted"

C6_Witness ==
  /\ stage1 = "object"
  /\ pc = "Aborted"

\* C7: if Stage 1 succeeded and Stage 2 fails, extract_keywords returns
\* exactly the Stage 1 list: same terms, same order.
C7_Stage2FailureFallsBack ==
  (stage1 = "array" /\ StageFailed(stage2)) => keywords = primary_keywords

C7_Witness ==
  /\ stage1 = "array"
  /\ stage2 = "invalid"
  /\ Len(primary_keywords) = 2
  /\ primary_keywords[1] # primary_keywords[2]
  /\ keywords = primary_keywords

\* C8: whenever Stage 1 yields a non-empty array, extract_keywords returns
\* a non-empty list for every Stage 2 response.
C8_TermSetNonEmptyOnSuccess ==
  (stage1 = "array" /\ primary_keywords # <<>> /\ stage2 # "unset") => keywords # <<>>

\* C9: whenever extract_keywords returns after a successful Stage 1, every
\* Stage 1 term is an element of the returned list.
C9_ExpansionRetainsOriginals ==
  (stage1 = "array" /\ stage2 # "unset") => Range(primary_keywords) \subseteq Range(keywords)

\* C10: if the reranker's LLM call fails or its response is not parsable as
\* JSON, rerank_resumes returns its input unchanged.
C10_RerankIdentityFallback ==
  rerank \in {"raised", "none", "invalid"} => reranked = matched

C10_Witness ==
  /\ rerank = "invalid"
  /\ Len(matched) = 3
  /\ reranked = matched


\* the names a relevant_names / irrelevant_names value lists
NamesIn(v) == IF v.t = "array" THEN Range(v.items) ELSE {}

\* the response is the expected JSON object: relevant_names is an array of
\* names
ExpectedShape == rr_class = "object" /\ rr_relevant.t = "array"

\* C11: whenever the cleaned response cannot be parsed as the expected JSON
\* object with a relevant_names array, rerank_resumes returns the entire
\* input candidate list.
C11_UnexpectedShapeReturnsAll ==
  (rr_pc = "returned" /\ ~ExpectedShape) => rr_result = rr_resumes

\* C12: a candidate whose name is in neither relevant_names nor
\* irrelevant_names is part of the list rerank_resumes returns.
C12_UnclassifiedKept ==
  (rr_pc = "returned" /\ ExpectedShape) =>
     \A i \in 1..Len(rr_resumes) :
        rr_resumes[i].name \notin (NamesIn(rr_relevant) \cup NamesIn(rr_irrelevant))
           => rr_resumes[i] \in Range(rr_result)

\* C13: every record rerank_resumes returns is one of its input records,
\* for every input and every LLM outcome.
C13_OutputSubsetOfInput ==
  rr_pc = "returned" =>
     /\ Range(rr_result) \subseteq Range(rr_resumes)
     /\ Len(rr_result) <= Len(rr_resumes)

C13_Witness ==
  /\ rr_pc = "returned"
  /\ "Eve" \in NamesIn(rr_relevant)
  /\ rr_result # <<>>
  /\ Len(rr_result) < Len(rr_resumes)

\* C14: on a parsed response with a relevant_names array the output is the
\* input filtered to the records whose name is listed, in input order and
\* with every record of a listed name; irrelevant_names does not matter.
C14_FilterByRelevantNames ==
  (rr_pc = "returned" /\ ExpectedShape) =>
     rr_result = SelectSeq(rr_resumes, LAMBDA r : r.name \in NamesIn(rr_relevant))

C14_Witness ==
  /\ rr_pc = "returned"
  /\ ExpectedShape
  /\ "Asha" \in NamesIn(rr_relevant) \cap NamesIn(rr_irrelevant)
  /\ Len(rr_resumes) = 3
  /\ Len(rr_result) = 2
  /\ rr_result[1].name = "Asha"
  /\ rr_result[2].name = "Asha"

\* C15: in every state in which the reranker has accepted a parsed
\* response, no candidate name is in both the relevant and the irrelevant
\* set.
C15_PartitionDisjoint ==
  (rr_pc = "returned" /\ ExpectedShape) =>
     \A i \in 1..Len(rr_resumes) :
        rr_resumes[i].name \notin (NamesIn(rr_relevant) \cap NamesIn(rr_irrelevant))


\* C16: if the synthesizer's LLM call fails, generate_answer returns a
\* diagnostic string describing the failure, so run still returns a string
\* after a non-empty retrieval.
C16_SynthesisFailureIsDiagnostic ==
  synth \in {"raise", "none"} =>
     /\ pc = "Done"
     /\ matched # <<>>
     /\ result.type = "str"
     /\ Len(result.text) = 2
     /\ result.text[1] = Lit("Generation failed: ")

C16_Witness ==
  /\ synth = "raise"
  /\ pc = "Done"
  /\ matched # <<>>
  /\ result = PyStr(<<Lit("Generation failed: "), Lit("HTTPError")>>)

\* C17: no email value and no phone value of a record given to
\* generate_answer appears in the text it returns, whatever the model
\* answers.
C17_AnswerRedacted ==
  pc = "Done" =>
     \A i \in 1..Len(reranked) :
        /\ Prose(reranked[i].email) \notin Range(result.text)
        /\ Prose(reranked[i].phone) \notin Range(result.text)


\* the fixed field set, as the specification lists it
FixedFields ==
  {"name", "summary", "skills", "projects.description", "projects.title",
   "experience.description", "experience.title", "experience.company",
   "education.institution", "certifications.title", "certifications.issuer"}

\* C18: for every non-empty term list (duplicates counted) the filter is a
\* disjunction of exactly |terms| * 11 case-insensitive pattern conditions,
\* as many for a (term, field) pair as the term occurs in the list, and
\* every condition's field is one of the 11 fixed fields.
C18_ConditionPerTermAndField ==
  calls["find"] = 1 =>
     /\ mongo_query.keys = {"$or"}
     /\ Cardinality(FixedFields) = 11
     /\ Len(mongo_query.or) = Len(keywords) * 11
     /\ \A n \in 1..Len(mongo_query.or) :
          /\ mongo_query.or[n].field \in FixedFields
          /\ mongo_query.or[n].options = "i"
     /\ \A t \in Range(keywords), f \in FixedFields :
          Cardinality({n \in 1..Len(mongo_query.or) :
                         mongo_query.or[n].field = f /\ mongo_query.or[n].regex = t})
            = Cardinality({i \in 1..Len(keywords) : keywords[i] = t})

C18_Witness ==
  /\ calls["find"] = 1
  /\ Len(keywords) = 2
  /\ keywords[1] = keywords[2]
  /\ Len(mongo_query.or) = 22

\* the filter is the empty dict
EmptyFilter(q) == "$or" \notin q.keys \/ q.or = <<>>

\* C19: find is never invoked with the empty filter: build_mongo_query gives
\* the empty filter only for the empty list, and search as well as
\* process_query call find only with a non-empty keyword list.
C19_NeverFindsWithEmptyFilter ==
  /\ \A kws \in SeqUpTo(Terms, MaxTerms) :
        EmptyFilter(build_mongo_query(kws)) <=> kws = <<>>
  /\ calls["find"] >= 1 => (keywords # <<>> /\ ~EmptyFilter(mongo_query))
  /\ b_pc \in {"Retrieving", "Raised"} => (b_keywords # <<>> /\ ~EmptyFilter(b_query))
  /\ b_finds = Cardinality({i \in 1..Len(b_results) : b_results[i].keywords # <<>>})
                 + (IF b_pc \in {"Retrieving", "Raised"} THEN 1 ELSE 0)

C19_Witness ==
  /\ b_pc = "Saved"
  /\ Len(b_results) = 2
  /\ b_results[1].keywords = <<>>
  /\ b_results[2].keywords # <<>>
  /\ b_finds = 1

\* the place of a remote service in run's order of stages
StageRank(svc) ==
  CASE svc = "stage1" -> 1
    [] svc = "stage2" -> 2
    [] svc = "find" -> 3
    [] svc = "rerank" -> 4
    [] svc = "synth" -> 5

\* where run is while it waits for the service
Awaiting(svc) ==
  CASE svc = "stage1" -> "Extracting1"
    [] svc = "stage2" -> "Extracting2"
    [] svc = "find" -> "Retrieving"
    [] svc = "rerank" -> "Reranking"
    [] svc = "synth" -> "Synthesizing"

\* C21: within one run the stages are invoked in the order extractor,
\* builder, store, reranker, synthesizer: every service is called at most
\* once; a call is issued only by the step in which an earlier stage returns
\* (or run starts), while no later stage has been called; and the filter is
\* built only in the step that calls find with it.
C21_StagesInFixedOrder ==
  [][ /\ \A svc \in Services :
           /\ calls'[svc] <= 1
           /\ calls'[svc] > calls[svc] =>
                /\ pc' = Awaiting(svc)
                /\ pc \in {"Start"} \cup
                          {Awaiting(e) : e \in {x \in Services : StageRank(x) < StageRank(svc)}}
                /\ \A later \in Services :
                      StageRank(later) > StageRank(svc) => calls'[later] = 0
      /\ mongo_query' # mongo_query =>
           /\ calls'["find"] > calls["find"]
           /\ mongo_query' = build_mongo_query(keywords')
    ]_vars

C21_Witness ==
  /\ pc = "Done"
  /\ \A svc \in Services : calls[svc] = 1

\* C23: one call of extract_keywords issues exactly one Stage 1 call and at
\* most one Stage 2 call whatever the calls answer, and once a call has
\* failed the extractor waits for no further call.
C23_ExtractorNoRetries ==
  /\ pc # "Start" => calls["stage1"] = 1
  /\ calls["stage2"] <= 1
  /\ StageFailed(stage1) => (calls["stage2"] = 0 /\ pc \notin {"Extracting1", "Extracting2"})
  /\ StageFailed(stage2) => pc \notin {"Extracting1", "Extracting2"}

C23_Witness ==
  /\ stage1 = "array"
  /\ stage2 = "raised"
  /\ calls["stage1"] = 1
  /\ calls["stage2"] = 1
  /\ pc = "Done"

\* C25: a run never changes the documents of the store, and the records
\* search returned stay as they are while the reranker and the synthesizer
\* work on them.
C25_StoreAndRecordsUnchanged ==
  [][ /\ collection' = collection
      /\ pc \in {"Reranking", "Synthesizing"} => matched' = matched
    ]_vars

C25_Witness ==
  /\ pc = "Done"
  /\ matched = MatchedOf(find(collection, mongo_query))
  /\ Len(matched) = 2
  /\ Len(reranked) = 1

\* C28: the Stage 2 call is issued exactly when the Stage 1 call returned a
\* text that cleans and parses to a JSON array, the empty array included;
\* and when the Stage 2 response parses to an array, extract_keywords
\* returns that array as it is, instead of the Stage 1 list.
C28_Stage2IffStage1Array ==
  /\ stage1 = "unset" => calls["stage2"] = 0
  /\ stage1 # "unset" => (calls["stage2"] = 1 <=> stage1 = "array")
  /\ stage2 = "array" => keywords = final_keywords.items

C28_Witness ==
  /\ stage1 = "array"
  /\ primary_keywords = <<>>
  /\ calls["stage2"] = 1
  /\ stage2 = "array"
  /\ keywords = <<"python", "Kubernetes">>
  /\ final_keywords.items = keywords

\* C22: if every remote call returns or fails in the end, run(query)
\* reaches Done or Aborted, and a run that has entered Synthesizing ends in
\* Done with a string, the model's answer or the diagnostic.
C22_RunTerminatesDoneOrAborted ==
  /\ <>(pc \in {"Done", "Aborted"})
  /\ (pc = "Synthesizing") ~> (pc = "Done" /\ result.type = "str")

\* queries whose processing main has begun
BatchStarted == b_i + (IF b_pc \in {"Extracting1", "Extracting2", "Retrieving", "Raised"} THEN 1 ELSE 0)

\* C26: in every batch run the queries are processed one after the other,
\* the extraction for a query starting only when the results of all
\* queries before it are recorded, and a delay lies between the processing
\* of any two consecutive queries.
C26_SequentialWithFixedDelay ==
  /\ Len(b_results) = b_i
  /\ b_pc \in {"Extracting1", "Extracting2", "Retrieving"} => b_i < Len(b_queries)
  /\ BatchStarted >= 2 => b_sleeps >= BatchStarted - 1

\* C29: main records one entry per query in input order: the results list
\* always holds the entries of the queries processed so far, entry i
\* carrying query i; when the loop is over it has as many entries as there
\* are queries; and an entry with no keywords has no matched_resumes.
C29_OneEntryPerQueryInOrder ==
  /\ Len(b_results) = b_i
  /\ b_i <= Len(b_queries)
  /\ \A i \in 1..Len(b_results) :
        /\ b_results[i].query = b_queries[i]
        /\ b_results[i].keywords = <<>> => b_results[i].matched_resumes = <<>>
  /\ b_pc = "Saved" => Len(b_results) = Len(b_queries)

C29_Witness ==
  /\ b_pc = "Saved"
  /\ Len(b_queries) = 2
  /\ Len(b_results) = 2
  /\ b_results[1].keywords = <<>>
  /\ b_results[1].matched_resumes = <<>>
  /\ b_results[2].matched_resumes # <<>>

\* the payload neither starts nor ends with a backtick
NoBacktickAtEnds(p) == p = <<>> \/ (Head(p) # Fence /\ p[Len(p)] # Fence)

\* C24, as claimed: for a payload that neither starts nor ends with a
\* backtick, clean_llm_response of the payload in fences (tagged json or
\* not, whitespace or none around payload and fences) and of the payload
\* without fences is the payload trimmed, so both parse alike.
C24_FenceStrippingAsClaimed ==
  (cl_pc = "returned" /\ NoBacktickAtEnds(cl_payload)) =>
     /\ cl_result = Strip(cl_payload)
     /\ json_loads(cl_result) = json_loads(cl_payload)

\* the word json directly follows an opening fence that carries no tag, so
\* that it reads as the tag
ReadsAsTag(w, p) == w.fenced /\ w.tag = <<>> /\ w.i1 = <<>> /\ StartsWith(p, <<JsonTag>>)

\* C24: for a payload that, trimmed, neither starts nor ends with a
\* backtick, clean_llm_response of the payload in fences (tagged json or
\* not, whitespace or none around payload and fences) and of the payload
\* without fences is the payload trimmed, so both parse alike, unless the
\* payload starts with the word json and directly follows an untagged
\* opening fence.
C24_FenceStripping ==
  (cl_pc = "returned" /\ NoBacktickAtEnds(Strip(cl_payload))
     /\ ~ReadsAsTag(cl_wrap, cl_payload)) =>
     /\ cl_result = Strip(cl_payload)
     /\ json_loads(cl_result) = json_loads(cl_payload)

C24_Witness ==
  /\ cl_pc = "returned"
  /\ cl_payload = <<Doc(JArray(<<"python">>)), Ws>>
  /\ cl_wrap.tag = <<JsonTag>>
  /\ cl_text = <<Ws, Fence, JsonTag, Ws>> \o cl_payload \o <<Ws, Fence, Ws>>
  /\ cl_result = <<Doc(JArray(<<"python">>))>>

\* C27: when two calls of run on one pipeline object interleave at their
\* awaits, each call is at every moment where it would be, and has returned
\* what it would have returned, had it run alone with the same responses.
C27_ConcurrentRunsDoNotInterfere ==
  \A c \in Callers :
     /\ conc_pc[c] = alone[c].pc
     /\ conc_result[c] = alone[c].result

C27_Witness ==
  /\ conc_pc["a"] = "Done"
  /\ conc_result["a"] = PyStr(<<Prose("Asha")>>)
  /\ conc_pc["b"] = "Synthesizing"
  /\ frames["a"].query # frames["b"].query
  /\ frames["a"].resumes # frames["b"].resumes
  /\ frames["b"].reranked # frames["b"].resumes

\* the back-end a request's own flags stand for
OwnBackend(request) ==
  IF request.use_optimize_llm THEN "azure"
  ELSE IF request.use_openai THEN "openai"
  ELSE "gemini"

\* C30: under every interleaving of /query requests, the back-end chosen
\* for a request is the one its own use_openai and use_optimize_llm flags
\* stand for, and a request with chunks that got past the retriever has one
\* chosen.
C30_BackendFollowsOwnFlags ==
  \A r \in Requests :
     /\ api_backend[r] # "none" => api_backend[r] = OwnBackend(api_request[r])
     /\ (api_pc[r] \in {"awaiting", "done"} /\ api_request[r].retrieved = "chunks")
          => api_backend[r] # "none"

C30_Witness ==
  /\ api_pc["r1"] = "awaiting"
  /\ api_backend["r1"] = "azure"
  /\ api_pc["r2"] = "done"
  /\ api_backend["r2"] = "openai"
  /\ generator.use_optimize_llm = FALSE
  /\ generator.use_openai = TRUE

====
